---- MODULE Spec2Model ----
(***************************************************************************)
(* second_order_centrality(G) of src/second_order_centrality.py as a state *)
(* machine: one call, one action per statement of the function body.       *)
(*                                                                         *)
(* Numbers.  numpy works on IEEE doubles; the model works on exact         *)
(* rationals <<num, den>> in lowest terms with den > 0, plus the one       *)
(* non-number NaN == <<0, 0>> that 0/0 produces.  Rounding error is not    *)
(* modelled.  The value np.sqrt returns is kept as a tagged record holding *)
(* the radicand, so that roots are compared through their squares.         *)
(***************************************************************************)
EXTENDS Integers, Sequences, FiniteSets, TLC

(***************************************************************************)
(* Bounds of the model.                                                    *)
(***************************************************************************)
MaxN == 4          \* graphs of 0..MaxN nodes
MaxWeight == 2     \* the weight of the edge {0,1} ranges over 0..MaxWeight
MaxIdOffset == 1   \* node identifiers are offset..offset+n-1, offset in 0..MaxIdOffset
StarLeaves == 10   \* nx.star_graph(10) of the docstring example and of __main__

(***************************************************************************)
(* Exact rational arithmetic with NaN.                                     *)
(***************************************************************************)
NaN == <<0, 0>>
IsNaN(x) == x[2] = 0

Abs(a) == IF a < 0 THEN -a ELSE a

RECURSIVE GCD(_, _)
GCD(a, b) == IF b = 0 THEN a ELSE GCD(b, a % b)

\* the rational num/den in lowest terms.  Division by zero only ever arises as
\* 0/0 here: weights are non-negative, so a row of sum zero has only zero
\* entries, and the solver divides by non-zero pivots only.
Rat(num, den) ==
    IF den = 0 THEN NaN
    ELSE LET g == GCD(Abs(num), Abs(den))
             s == IF den < 0 THEN -1 ELSE 1
         IN  <<(s * num) \div g, (s * den) \div g>>

Zero == <<0, 1>>
One == <<1, 1>>
FromInt(k) == <<k, 1>>

\* sums and products cancel common factors before they multiply
RAdd(x, y) == IF IsNaN(x) \/ IsNaN(y) THEN NaN
              ELSE LET g == GCD(x[2], y[2])
                   IN  Rat(x[1] * (y[2] \div g) + y[1] * (x[2] \div g),
                           (x[2] \div g) * y[2])
RNeg(x) == <<0 - x[1], x[2]>>
RSub(x, y) == RAdd(x, RNeg(y))
RMul(x, y) == IF IsNaN(x) \/ IsNaN(y) THEN NaN
              ELSE LET g1 == GCD(Abs(x[1]), y[2])
                       g2 == GCD(Abs(y[1]), x[2])
                   IN  Rat((x[1] \div g1) * (y[1] \div g2),
                           (x[2] \div g2) * (y[2] \div g1))
RDiv(x, y) == IF IsNaN(x) \/ IsNaN(y) \/ y[1] = 0 THEN NaN
              ELSE IF y[1] < 0 THEN RMul(x, <<0 - y[2], 0 - y[1]>>)
              ELSE RMul(x, <<y[2], y[1]>>)
\* IEEE comparisons with a NaN operand are false
RLess(x, y) == ~IsNaN(x) /\ ~IsNaN(y) /\ x[1] * y[2] < y[1] * x[2]

Idx(n) == 0 .. (n - 1)

\* a function forced to an explicit table (evaluated once, not per application)
Force(f) == IF f = f THEN f ELSE f

RECURSIVE SumTo(_, _)
\* v[0] + ... + v[k-1]
SumTo(v, k) == IF k = 0 THEN Zero ELSE RAdd(SumTo(v, k - 1), v[k - 1])

(***************************************************************************)
(* np.linalg.solve(a, b) for an n x n system with one right-hand side.     *)
(***************************************************************************)
HasNaN(a, b, n) ==
    \E r \in Idx(n) : IsNaN(b[r]) \/ \E c \in Idx(n) : IsNaN(a[r][c])

\* one Gauss-Jordan step on the augmented matrix m (columns 0..n, column n is b):
\* bring a row with a non-zero entry in column c to row c, scale it, clear column c
ElimStep(m, c, p, n) ==
    LET prow == [k \in 0 .. n |-> RDiv(m[p][k], m[p][c])]
        row(r) == IF r = c THEN prow
                  ELSE LET src == IF r = p THEN m[c] ELSE m[r]
                       IN  [k \in 0 .. n |-> RSub(src[k], RMul(src[c], prow[k]))]
    IN  Force([r \in Idx(n) |-> Force(row(r))])

RECURSIVE Elim(_, _, _)
Elim(m, c, n) ==
    IF c = n THEN [raised |-> FALSE, x |-> [r \in Idx(n) |-> m[r][n]]]
    ELSE LET piv == {r \in c .. (n - 1) : m[r][c] # Zero}
         IN  IF piv = {} THEN [raised |-> TRUE, x |-> <<>>]
             ELSE LET p == CHOOSE r \in piv : \A q \in piv : r <= q
                  IN  Elim(ElimStep(m, c, p, n), c + 1, n)

\* The outcomes of the call.  A system of finite entries has its exact solution,
\* or LinAlgError("Singular matrix") when the matrix is singular.  With a NaN in
\* the system the factorisation's result depends on the LAPACK build: NaN in
\* every entry of the solution, or LinAlgError.
SolveOutcomes(a, b, n) ==
    IF HasNaN(a, b, n)
    THEN {[raised |-> FALSE, x |-> [r \in Idx(n) |-> NaN]],
          [raised |-> TRUE, x |-> <<>>]}
    ELSE {Elim(Force([r \in Idx(n) |->
                 [k \in 0 .. n |-> IF k = n THEN b[r] ELSE a[r][k]]]), 0, n)}

(***************************************************************************)
(* The input graph.  nodes[i] is the identifier of the i-th node in G's    *)
(* node order, edges holds the undirected edges {i, j} (a self-loop is     *)
(* {i}) by node position, weight their 'weight' attribute.                 *)
(***************************************************************************)
NumNodes(g) == Cardinality(DOMAIN g.nodes)

Pairs(n) == {e \in SUBSET Idx(n) : Cardinality(e) = 2}

Graph(dir, off, n, es, wt) ==
    [directed |-> dir, nodes |-> [k \in Idx(n) |-> off + k], edges |-> es,
     weight |-> wt]

Unit(es) == [e \in es |-> 1]

\* unweighted simple undirected graphs whose nodes are 0..n-1
BaseGraphs ==
    UNION {{Graph(FALSE, 0, n, es, Unit(es)) : es \in SUBSET Pairs(n)} : n \in 0 .. MaxN}

\* one departure from a base graph at a time: a directed graph, node identifiers
\* that are not 0..n-1, a self-loop on the first node, a weight on the edge {0,1}
Directed(g) == [g EXCEPT !.directed = TRUE]
Relabel(g, off) == [g EXCEPT !.nodes = [k \in DOMAIN g.nodes |-> off + k]]
WithLoop(g) == [g EXCEPT !.edges = g.edges \cup {{0}}, !.weight = Unit(g.edges \cup {{0}})]
Reweigh(g, w) == [g EXCEPT !.weight = [g.weight EXCEPT ![{0, 1}] = w]]

Graphs ==
    BaseGraphs
    \cup {Directed(g) : g \in BaseGraphs}
    \cup {Relabel(g, off) : g \in BaseGraphs, off \in 1 .. MaxIdOffset}
    \cup {WithLoop(g) : g \in {b \in BaseGraphs : NumNodes(b) >= 1}}
    \cup {Reweigh(g, w) : g \in {b \in BaseGraphs : {0, 1} \in b.edges},
                          w \in 0 .. MaxWeight}

\* nx.star_graph(k) with its hub at position hub of the node order
StarGraph(k, hub) ==
    Graph(FALSE, 0, k + 1, {{hub, l} : l \in Idx(k + 1) \ {hub}},
          Unit({{hub, l} : l \in Idx(k + 1) \ {hub}}))

StarGraphs == UNION {{StarGraph(k, hub) : hub \in 0 .. k} : k \in 2 .. StarLeaves}

(***************************************************************************)
(* The networkx calls.                                                     *)
(***************************************************************************)
\* the nodes reachable from those of seen along edges, whatever their weight
RECURSIVE Reach(_, _)
Reach(G, seen) ==
    LET more == {v \in Idx(NumNodes(G)) : \E u \in seen : {u, v} \in G.edges}
    IN  IF more \subseteq seen THEN seen ELSE Reach(G, seen \cup more)

\* a connectivity test that only asks every node to have a neighbour
IsConnectedNoIsolated(G) ==
    \A v \in Idx(NumNodes(G)) : NumNodes(G) = 1 \/ \E u \in Idx(NumNodes(G)) \ {v} : {u, v} \in G.edges

\* nx.is_connected(G), for a graph of at least one node
IsConnected(G) == Reach(G, {0}) = Idx(NumNodes(G))

\* nx.to_numpy_matrix(G): the edge's weight, 0 where there is no edge
ToNumpyMatrix(G) ==
    [r \in Idx(NumNodes(G)) |-> [c \in Idx(NumNodes(G)) |->
        IF {r, c} \in G.edges THEN FromInt(G.weight[{r, c}]) ELSE Zero]]

(***************************************************************************)
(* The matrix expressions of the function body.                            *)
(***************************************************************************)
\* P / P.sum(axis=1): every row divided by its sum
RowNormalize(A, n) ==
    [r \in Idx(n) |-> [c \in Idx(n) |-> RDiv(A[r][c], SumTo(A[r], n))]]

\* _Qj without the deepcopy: the column is zeroed in the caller's matrix
QjNoCopy(P, j, n) ==
    LET zeroed == [r \in Idx(n) |-> [c \in Idx(n) |-> IF c = j THEN Zero ELSE P[r][c]]]
    IN  [ret |-> zeroed, arg |-> zeroed]

\* _Qj without the assignment P[:, j] = 0
QjNoZero(P, j, n) == [ret |-> P, arg |-> P]

\* _Qj zeroing row j, P[j, :] = 0, instead of column j
QjRow(P, j, n) ==
    [ret |-> [r \in Idx(n) |-> [c \in Idx(n) |-> IF r = j THEN Zero ELSE P[r][c]]],
     arg |-> P]

\* _Qj(P, j): ret is the returned matrix, arg the caller's P after the call
Qj(P, j, n) ==
    LET copy == P
    IN  [ret |-> [r \in Idx(n) |-> [c \in Idx(n) |-> IF c = j THEN Zero ELSE copy[r][c]]],
         arg |-> P]

Identity(n) == [r \in Idx(n) |-> [c \in Idx(n) |-> IF r = c THEN One ELSE Zero]]
Ones(n) == [r \in Idx(n) |-> One]
MatSub(A, B, n) == [r \in Idx(n) |-> [c \in Idx(n) |-> RSub(A[r][c], B[r][c])]]
MatAdd(A, B, n) == [r \in Idx(n) |-> [c \in Idx(n) |-> RAdd(A[r][c], B[r][c])]]
\* matrix * column vector
MatVec(A, v, n) ==
    [r \in Idx(n) |-> SumTo([c \in Idx(n) |-> RMul(A[r][c], v[c])], n)]

\* np.empty([n, n]): every cell holds whatever the memory held, a value nothing
\* is known of; arithmetic treats it like NaN
Garbage == <<1, 0>>
Empty(n) == [r \in Idx(n) |-> [c \in Idx(n) |-> Garbage]]

\* X[:, i] = solution[0]: row 0 of the n x 1 solution is a single number, which
\* the assignment broadcasts over the whole column
Row0(x) == x[0]
Broadcast(v, n) == [r \in Idx(n) |-> v]
SetColumn(X, i, col, n) ==
    [r \in Idx(n) |-> [c \in Idx(n) |-> IF c = i THEN col[r] ELSE X[r][c]]]
Column(X, i, n) == [r \in Idx(n) |-> X[r][i]]

\* np.sqrt: NaN for a NaN or a negative argument, the root otherwise
Sqrt(x) == IF IsNaN(x) \/ RLess(x, Zero) THEN [nan |-> TRUE, sq |-> NaN]
           ELSE [nan |-> FALSE, sq |-> x]

\* np.sqrt(H - np.square(M))[0, :], enumerated
ResultOf(Mx, Hx, n) ==
    [k \in Idx(n) |-> Sqrt(RSub(Hx[0][k], RMul(Mx[0][k], Mx[0][k])))]

Cells(n) == Idx(n) \X Idx(n)
ColumnCells(i, n) == {<<r, i>> : r \in Idx(n)}

(***************************************************************************)
(* The call.                                                               *)
(***************************************************************************)
VARIABLES
    G,        \* the argument
    pc,       \* the statement the call is at
    exc,      \* the exception the call raised, "" if none
    P,        \* the transition matrix, <<>> until built
    M, H,     \* the working matrices, <<>> until allocated
    i,        \* the loop variable
    Qs,       \* the matrices _Qj returned to the statement executed last, with their j
    nsolve,   \* calls of np.linalg.solve so far
    wM, wH,   \* per column of M and of H, the times it was assigned
    rdM, rdH, \* the cells of M and of H the statement executed last read
    result    \* the returned dictionary, <<>> until returned

vars == <<G, pc, exc, P, M, H, i, Qs, nsolve, wM, wH, rdM, rdH, result>>

n == NumNodes(G)

InitCall ==
    /\ pc = "decorator" /\ exc = ""
    /\ P = <<>> /\ M = <<>> /\ H = <<>> /\ i = 0 /\ Qs = <<>> /\ nsolve = 0
    /\ wM = <<>> /\ wH = <<>> /\ rdM = {} /\ rdH = {} /\ result = <<>>

Init == G \in Graphs /\ InitCall

InitStar == G \in StarGraphs /\ InitCall

Raise(e) == pc' = "raised" /\ exc' = e

\* @nx.not_implemented_for('directed')
Decorator ==
    /\ pc = "decorator"
    /\ IF G.directed THEN Raise("NetworkXNotImplemented")
       ELSE pc' = "empty" /\ exc' = exc
    /\ UNCHANGED <<G, P, M, H, i, Qs, nsolve, wM, wH, rdM, rdH, result>>

\* n = len(G); if n == 0: raise
CheckEmpty ==
    /\ pc = "empty"
    /\ IF n = 0 THEN Raise("NetworkXException: Empty graph.")
       ELSE pc' = "connected" /\ exc' = exc
    /\ UNCHANGED <<G, P, M, H, i, Qs, nsolve, wM, wH, rdM, rdH, result>>

\* if not nx.is_connected(G): raise
CheckConnected ==
    /\ pc = "connected"
    /\ IF ~IsConnected(G) THEN Raise("NetworkXException: Non connected graph.")
       ELSE pc' = "buildP" /\ exc' = exc
    /\ UNCHANGED <<G, P, M, H, i, Qs, nsolve, wM, wH, rdM, rdH, result>>

\* P = nx.to_numpy_matrix(G); P = P / P.sum(axis=1)
BuildP ==
    /\ pc = "buildP"
    /\ P' = RowNormalize(ToNumpyMatrix(G), n)
    /\ pc' = "alloc"
    /\ UNCHANGED <<G, exc, M, H, i, Qs, nsolve, wM, wH, rdM, rdH, result>>

\* M = np.empty([n, n]); H = np.empty([n, n]); the loop starts at i = 0
Alloc ==
    /\ pc = "alloc"
    /\ M' = Empty(n) /\ H' = Empty(n)
    /\ wM' = [c \in Idx(n) |-> 0] /\ wH' = [c \in Idx(n) |-> 0]
    /\ i' = 0
    /\ pc' = "solveM"
    /\ UNCHANGED <<G, exc, P, Qs, nsolve, rdM, rdH, result>>

\* M[:, i] = np.linalg.solve(np.identity(n) - _Qj(P, i), np.ones([n, 1]))[0]
SolveM ==
    /\ pc = "solveM"
    /\ LET q == Qj(P, i, n)
       IN  /\ P' = q.arg
           /\ Qs' = <<[j |-> i, Q |-> q.ret]>>
           /\ \E o \in SolveOutcomes(MatSub(Identity(n), q.ret, n), Ones(n), n) :
                IF o.raised
                THEN Raise("LinAlgError") /\ UNCHANGED <<M, wM>>
                ELSE /\ M' = SetColumn(M, i, Broadcast(Row0(o.x), n), n)
                     /\ wM' = [wM EXCEPT ![i] = @ + 1]
                     /\ pc' = "solveH" /\ exc' = exc
    /\ nsolve' = nsolve + 1
    /\ rdM' = {} /\ rdH' = {}
    /\ UNCHANGED <<G, H, i, wH, result>>

\* the return statement indented into the loop body
AfterIterationReturn(j) == "return"

\* where the loop goes after iteration i
AfterIteration(j) == IF j + 1 < n THEN "solveM" ELSE "return"

\* H[:, i] = np.linalg.solve(np.identity(n) - _Qj(P, i),
\*              (np.identity(n) + _Qj(P, i)) * np.reshape(M[:, i], [n, 1]))[0]
SolveH ==
    /\ pc = "solveH"
    /\ LET q1 == Qj(P, i, n)
           q2 == Qj(q1.arg, i, n)
           rhs == MatVec(MatAdd(Identity(n), q2.ret, n), Column(M, i, n), n)
       IN  /\ P' = q2.arg
           /\ Qs' = <<[j |-> i, Q |-> q1.ret], [j |-> i, Q |-> q2.ret]>>
           /\ \E o \in SolveOutcomes(MatSub(Identity(n), q1.ret, n), rhs, n) :
                IF o.raised
                THEN Raise("LinAlgError") /\ UNCHANGED <<H, wH, i>>
                ELSE /\ H' = SetColumn(H, i, Broadcast(Row0(o.x), n), n)
                     /\ wH' = [wH EXCEPT ![i] = @ + 1]
                     /\ i' = i + 1
                     /\ pc' = AfterIteration(i) /\ exc' = exc
    /\ nsolve' = nsolve + 1
    /\ rdM' = ColumnCells(i, n) /\ rdH' = {}
    /\ UNCHANGED <<G, M, wM, result>>

\* return {k: v for k, v in enumerate(np.sqrt(H - np.square(M))[0, :])}
Return ==
    /\ pc = "return"
    /\ result' = ResultOf(M, H, n)
    /\ rdM' = Cells(n) /\ rdH' = Cells(n)
    /\ pc' = "done"
    /\ UNCHANGED <<G, exc, P, M, H, i, Qs, nsolve, wM, wH>>

Next ==
    \/ Decorator
    \/ CheckEmpty
    \/ CheckConnected
    \/ BuildP
    \/ Alloc
    \/ SolveM
    \/ SolveH
    \/ Return

Spec == Init /\ [][Next]_vars

\* the call on the star graphs of 2..StarLeaves leaves
SpecStar == InitStar /\ [][Next]_vars

(***************************************************************************)
(* Properties.                                                             *)
(***************************************************************************)
NotImplementedError == "NetworkXNotImplemented"
EmptyError == "NetworkXException: Empty graph."
DisconnectedError == "NetworkXException: Non connected graph."

\* some proper part of the nodes has no edge to the rest
Disconnected(g) ==
    \E S \in SUBSET Idx(NumNodes(g)) :
        /\ S # {} /\ S # Idx(NumNodes(g))
        /\ \A e \in g.edges : e \subseteq S \/ e \cap S = {}

\* nothing numerical has happened and nothing was returned
NoNumericalWork ==
    P = <<>> /\ M = <<>> /\ H = <<>> /\ nsolve = 0 /\ Qs = <<>> /\ result = <<>>

RaisedWith(e) == pc = "raised" /\ exc = e

\* C1: a directed graph is rejected with the unsupported-kind error, an empty
\* graph with the empty-graph error, an undirected non-empty disconnected graph
\* of any size with the disconnected-graph error; in all three cases the call
\* ends in the error, returns nothing, and neither P nor any linear solve is
\* ever reached.
C1_RejectsBeforeNumericalWork ==
    /\ G.directed =>
          /\ NoNumericalWork
          /\ pc = "decorator" \/ RaisedWith(NotImplementedError)
    /\ (~G.directed /\ n = 0) =>
          /\ NoNumericalWork
          /\ pc \in {"decorator", "empty"} \/ RaisedWith(EmptyError)
    /\ (~G.directed /\ n > 0 /\ Disconnected(G)) =>
          /\ NoNumericalWork
          /\ pc \in {"decorator", "empty", "connected"} \/ RaisedWith(DisconnectedError)

\* a disconnected graph of MaxN nodes without an isolated node was rejected
C1_Witness ==
    /\ RaisedWith(DisconnectedError) /\ n = MaxN /\ Disconnected(G)
    /\ \A v \in Idx(n) : \E e \in G.edges : v \in e

\* C2: the key set of the returned mapping is exactly the node set of the
\* graph, whatever the node identifiers are.
C2_KeysAreTheNodes ==
    pc = "done" => DOMAIN result = {G.nodes[k] : k \in Idx(n)}

\* C8: on a graph of exactly one node, with or without a self-loop, the call
\* does not fail and returns a single entry whose value is 0.
C8_SingleNode ==
    (~G.directed /\ n = 1) =>
        /\ pc # "raised"
        /\ pc = "done" => /\ DOMAIN result = {0}
                          /\ result[0] = [nan |-> FALSE, sq |-> Zero]

\* the single node has no self-loop, its adjacency row sums to 0 and P is 0/0
C8_Witness ==
    pc = "done" /\ n = 1 /\ G.edges = {} /\ IsNaN(P[0][0]) /\ result[0].sq = Zero

\* the matrix the single row-normalisation produces
NormalizedAdjacency == RowNormalize(ToNumpyMatrix(G), n)

C9_State ==
    /\ P # <<>> => P = NormalizedAdjacency
    /\ \A s \in DOMAIN Qs :
          \A r \in Idx(n) : \A c \in Idx(n) :
              Qs[s].Q[r][c] = IF c = Qs[s].j THEN Zero ELSE NormalizedAdjacency[r][c]

\* C9: building Q_j changes neither P nor the graph: at every point of the loop
\* P is the matrix the row-normalisation produced, and every Q_j handed to a
\* solve is zero in column j and equal to that matrix in every other column.
C9_QjLeavesPAlone == []C9_State /\ [][G' = G]_vars

\* a later iteration's H solve was handed its two Q_j, and the column zeroed for
\* the first target is not zero in P
C9_Witness ==
    /\ Len(Qs) = 2 /\ Qs[1].j >= 1
    /\ \E r \in Idx(n) : P[r][0] # Zero /\ ~IsNaN(P[r][0]) /\ Qs[2].Q[r][0] = P[r][0]

Allocated == pc \in {"solveM", "solveH", "return", "done"} \/ (pc = "raised" /\ M # <<>>)

\* C10: M and H are never read before being written.  Iteration j assigns
\* column j of M, then column j of H, each once and no other column; the H
\* solve of iteration j reads column j of M only, after it was assigned; the
\* result is derived from M and H once all their columns are assigned.
C10_WrittenBeforeRead ==
    Allocated =>
        /\ \A cell \in rdM : wM[cell[2]] >= 1 /\ M[cell[1]][cell[2]] # Garbage
        /\ \A cell \in rdH : wH[cell[2]] >= 1 /\ H[cell[1]][cell[2]] # Garbage
        /\ \A c \in Idx(n) :
              /\ wM[c] = IF c < i \/ (c = i /\ (pc = "solveH" \/ (pc = "raised" /\ rdM # {})))
                         THEN 1 ELSE 0
              /\ wH[c] = IF c < i THEN 1 ELSE 0
              /\ \A r \in Idx(n) : /\ (M[r][c] = Garbage) <=> (wM[c] = 0)
                                   /\ (H[r][c] = Garbage) <=> (wH[c] = 0)
        /\ pc \in {"solveM", "return"} /\ i > 0 => rdM = ColumnCells(i - 1, n) /\ rdH = {}
        /\ pc = "solveH" => rdM = {} /\ rdH = {}
        /\ pc = "raised" => rdM \subseteq ColumnCells(i, n) /\ rdH = {}
        /\ pc = "done" => /\ rdM = Cells(n) /\ rdH = Cells(n)
                          /\ \A c \in Idx(n) : wM[c] = 1 /\ wH[c] = 1

\* the result of a graph of several nodes was derived
C10_Witness == pc = "done" /\ n >= 3 /\ rdM = Cells(n) /\ wH[n - 1] = 1

(***************************************************************************)
(* The values the spec describes, computed beside the call.                *)
(***************************************************************************)
\* every edge has a positive weight; with connectedness every system of the
\* loop then has exactly one solution
PositiveWeights(g) == \A e \in g.edges : g.weight[e] >= 1

Solution(a, b, k) == (CHOOSE o \in SolveOutcomes(a, b, k) : TRUE).x

\* the solution vector m of (I - Q_k) m = 1
FullM(Pm, k, sz) == Solution(MatSub(Identity(sz), Qj(Pm, k, sz).ret, sz), Ones(sz), sz)

\* the solution vector h of (I - Q_k) h = (I + Q_k) m, for the whole vector m
FullH(Pm, k, sz) ==
    Solution(MatSub(Identity(sz), Qj(Pm, k, sz).ret, sz),
             MatVec(MatAdd(Identity(sz), Qj(Pm, k, sz).ret, sz), FullM(Pm, k, sz), sz), sz)

\* C3: the value returned for k is sqrt(h[0] - m[0]^2), m the solution vector of
\* (I - Q_k) m = 1, stored entry by entry as column k of M, and h the solution
\* vector of (I - Q_k) h = (I + Q_k) m for that whole vector m, stored as
\* column k of H.
C3_ValueFromFullSolution ==
    (pc = "done" /\ PositiveWeights(G)) =>
        \A k \in Idx(n) :
            LET m == FullM(NormalizedAdjacency, k, n)
                h == FullH(NormalizedAdjacency, k, n)
            IN  /\ result[k] = Sqrt(RSub(h[0], RMul(m[0], m[0])))
                /\ \A r \in Idx(n) : M[r][k] = m[r] /\ H[r][k] = h[r]

RootLess(a, b) == ~a.nan /\ ~b.nan /\ RLess(a.sq, b.sq)

Unweighted(g) == \A e \in g.edges : g.weight[e] = 1 /\ Cardinality(e) = 2
Neighbours(g, v) == {u \in Idx(NumNodes(g)) \ {v} : {u, v} \in g.edges}

\* g is a star of at least two leaves around hub
IsStarAround(g, hub) ==
    /\ ~g.directed /\ Unweighted(g) /\ NumNodes(g) >= 3
    /\ g.edges = {{hub, l} : l \in Idx(NumNodes(g)) \ {hub}}

\* C4: on a star graph of k >= 2 leaves, wherever the hub is in the node order,
\* the hub's value is strictly less than every leaf's and all leaves have the
\* same value; for star_graph(10) the minimum is at node 0.
C4_StarHubIsMostCentral ==
    pc = "done" =>
        \A hub \in Idx(n) :
            IsStarAround(G, hub) =>
                \A l \in Idx(n) \ {hub} :
                    /\ RootLess(result[hub], result[l])
                    /\ \A l2 \in Idx(n) \ {hub} : result[l2] = result[l]

\* star_graph(10) was computed: node 0 is the hub and has the least value
C4_Witness ==
    /\ pc = "done" /\ G = StarGraph(StarLeaves, 0) /\ IsStarAround(G, 0)
    /\ \A l \in 1 .. StarLeaves : RootLess(result[0], result[l])

Perms(sz) == {f \in [Idx(sz) -> Idx(sz)] : \A a \in Idx(sz) : \A b \in Idx(sz) : f[a] = f[b] => a = b}

\* g with its nodes enumerated in another order: the node at position k moves
\* to position f[k], and takes its identifier and its edges along
Permute(g, f) ==
    [directed |-> g.directed,
     nodes |-> [q \in Idx(NumNodes(g)) |-> g.nodes[CHOOSE k \in Idx(NumNodes(g)) : f[k] = q]],
     edges |-> {{f[v] : v \in e} : e \in g.edges},
     weight |-> [e2 \in {{f[v] : v \in e} : e \in g.edges} |->
                    g.weight[CHOOSE e \in g.edges : {f[v] : v \in e} = e2]]]

Automorphisms(g) == {f \in Perms(NumNodes(g)) : Permute(g, f).edges = g.edges}

VertexTransitive(g) ==
    \A u \in Idx(NumNodes(g)) : \A v \in Idx(NumNodes(g)) :
        \E f \in Automorphisms(g) : f[u] = v

\* C5: on a vertex-transitive unweighted graph (a cycle, a complete graph) all
\* nodes receive the same value.
C5_SymmetricGraphEqualValues ==
    (pc = "done" /\ Unweighted(G) /\ n >= 2 /\ VertexTransitive(G)) =>
        \A k \in Idx(n) : result[k] = result[0]

\* lines 94-113 as a function of the graph, for a connected graph of positive
\* weights: the value at each position of the node order
SocOf(g) ==
    LET sz == NumNodes(g)
        Pm == RowNormalize(ToNumpyMatrix(g), sz)
        m0(k) == Row0(Solution(MatSub(Identity(sz), Qj(Pm, k, sz).ret, sz), Ones(sz), sz))
        h0(k) == Row0(Solution(MatSub(Identity(sz), Qj(Pm, k, sz).ret, sz),
                               MatVec(MatAdd(Identity(sz), Qj(Pm, k, sz).ret, sz),
                                      Broadcast(m0(k), sz), sz), sz))
    IN  [k \in Idx(sz) |-> Sqrt(RSub(h0(k), RMul(m0(k), m0(k))))]

\* C6: the value a node receives does not depend on the order in which the
\* nodes are enumerated: the call on any re-enumeration of the graph gives each
\* node the value this call gave it.
C6_EnumerationInvariant ==
    (pc = "done" /\ PositiveWeights(G)) =>
        \A f \in Perms(n) : \A k \in Idx(n) : SocOf(Permute(G, f))[f[k]] = result[k]

\* C7: on a connected undirected graph of non-negative weights every returned
\* value is a non-negative real number: no NaN, no negative radicand.
C7_ValuesNonNegativeReal ==
    pc = "done" =>
        \A k \in Idx(n) : ~result[k].nan /\ ~IsNaN(result[k].sq) /\ ~RLess(result[k].sq, Zero)
====
